---- MODULE Spec2Model ----
(***************************************************************************)
(* Model of tools/batch_style.py: colour-managed image loading and saving, *)
(* the safe-scale estimate, device validation, and the per-job and batch   *)
(* orchestration around the external StyleTransfer object.                 *)
(***************************************************************************)
EXTENDS Integers, Naturals, Sequences, FiniteSets, TLC

VARIABLES
    pc,            \* position of the program (or of the unit under analysis)
    item,          \* index into os.listdir(content_path) of the running job
    listing,       \* os.listdir(content_path): the suffix of each file name
    proc,          \* "running", "exit0", "exit1" (sys.exit(1)) or "unhandled"
    raised,        \* kind of the exception that ended the process, or "none"
    stderr,        \* what print_error wrote: exception kind names
    stdout,        \* what print wrote
    content_img,   \* stylize(): content_img
    style_imgs,    \* stylize(): style_imgs
    devices,       \* stylize(): devices
    end_scale,     \* stylize(): end_scale
    output_image,  \* stylize(): output_image
    trace,         \* history: per item, the calls made for it and how each ended
    cuda_available,\* torch.cuda.is_available(): what the machine offers
    args,          \* inputs of the unit under analysis
    ret            \* its result

vars == <<pc, item, listing, proc, raised, stderr, stdout, content_img, style_imgs,
          devices, end_scale, output_image, trace, cuda_available, args, ret>>

jobVars == <<item, listing, content_img, style_imgs, end_scale, output_image, trace,
             cuda_available>>

-----------------------------------------------------------------------------
(* Exceptions.  A kind is the class name print_error shows; IsInstance is  *)
(* Python's subclass relation, which decides what an except clause catches.*)

OSErrorKinds == {"OSError", "FileNotFoundError", "UnidentifiedImageError", "PermissionError"}

IsInstance(kind, class) ==
    \/ kind = class
    \/ class = "OSError" /\ kind \in OSErrorKinds

Catches(classes, kind) == \E c \in classes : IsInstance(kind, c)

-----------------------------------------------------------------------------
(* Colour profiles: a profile is its byte content, compared by equality.   *)

srgb_profile == "sRGB"

Profiles == {"sRGB", "AdobeRGB", "GrayGamma22", "FOGRA39", "garbage"}

\* What the colour engine makes of the bytes: whether they parse, and the
\* colour space of the profile.
Parses(p) == p # "garbage"

ColorSpace(p) ==
    CASE p = "sRGB" -> "RGB"
      [] p = "AdobeRGB" -> "RGB"
      [] p = "GrayGamma22" -> "GRAY"
      [] p = "FOGRA39" -> "CMYK"
      [] OTHER -> "none"

ModeSpace(mode) ==
    CASE mode = "RGB" -> "RGB"
      [] mode = "L" -> "GRAY"
      [] mode = "CMYK" -> "CMYK"
      [] OTHER -> "none"

Modes == {"RGB", "L", "CMYK"}

Sizes == {<<2000, 1000>>, <<512, 512>>}

NoImage == [kind |-> "None", mode |-> "none", size |-> <<0, 0>>]

\* Image.convert(mode)
convert(image, mode) == [image EXCEPT !.mode = mode]

\* ImageCms.profileToProfile through prof_to_prof: every failure of the
\* engine surfaces as PyCMSError, which is an Exception, not an OSError.
prof_to_prof(image, src_prof, dst_prof, outputMode) ==
    IF /\ Parses(src_prof) /\ Parses(dst_prof)
       /\ ColorSpace(src_prof) = ModeSpace(image.mode)
       /\ ColorSpace(dst_prof) = ModeSpace(outputMode)
    THEN [raised |-> "none", image |-> convert(image, outputMode)]
    ELSE [raised |-> "PyCMSError", image |-> NoImage]

\* One entry of the log of prof_to_prof calls.
Conversion(src_prof, dst_prof, outputMode) ==
    [src |-> src_prof, dst |-> dst_prof, outputMode |-> outputMode]

-----------------------------------------------------------------------------
(* Files and load_image.                                                   *)

\* What Image.open finds at a path.
Files ==
    {[status |-> "missing", mode |-> "none", icc |-> "none", size |-> <<0, 0>>],
     [status |-> "not_image", mode |-> "none", icc |-> "none", size |-> <<0, 0>>]}
    \cup [status : {"ok"}, mode : Modes, icc : Profiles \cup {"none"}, size : Sizes]

OpenError(file) ==
    CASE file.status = "missing" -> "FileNotFoundError"
      [] file.status = "not_image" -> "UnidentifiedImageError"
      [] OTHER -> "none"

\* What Path(proof_prof).read_bytes() finds; "None" is the absent argument.
ProofPaths == {"None", "fogra39.icc", "adobergb.icc", "garbage.icc", "unreadable.icc"}

read_bytes(path) ==
    CASE path = "fogra39.icc" -> [raised |-> "none", bytes |-> "FOGRA39"]
      [] path = "adobergb.icc" -> [raised |-> "none", bytes |-> "AdobeRGB"]
      [] path = "garbage.icc" -> [raised |-> "none", bytes |-> "garbage"]
      [] OTHER -> [raised |-> "PermissionError", bytes |-> "none"]

\* The except clause of load_image: OSError only.
LoadCatches == {"OSError"}

\* A handler that prints nothing and lets the caller go on: what C4 must detect.
load_swallow(kind, conversions) ==
    [outcome |-> "returned", status |-> 0, raised |-> "none", error |-> kind,
     stderr |-> << >>, image |-> NoImage, conversions |-> conversions]

\* What load_image makes of an exception of the given kind raised in its try
\* block after the given conversions: caught, printed and sys.exit(1), or
\* left to propagate to the caller.
load_except(kind, conversions) ==
    IF Catches(LoadCatches, kind)
    THEN [outcome |-> "exit", status |-> 1, raised |-> "SystemExit", error |-> kind,
          stderr |-> <<kind>>, image |-> NoImage, conversions |-> conversions]
    ELSE [outcome |-> "raised", status |-> 0, raised |-> kind, error |-> kind,
          stderr |-> << >>, image |-> NoImage, conversions |-> conversions]

load_return(image, conversions) ==
    [outcome |-> "returned", status |-> 0, raised |-> "none", error |-> "none",
     stderr |-> << >>, image |-> image, conversions |-> conversions]

\* Profiles compared by colour space instead of by bytes: what C5 must detect.
SameColorSpace(src_prof, dst_prof) == ColorSpace(src_prof) = ColorSpace(dst_prof)

\* The comparison that short-circuits the conversion.
SameProfile(src_prof, dst_prof) == src_prof = dst_prof

\* The first hop made with output mode RGB: what C6 must detect.
proof_hop_rgb(image, src_prof, proof_bytes) ==
    [call |-> Conversion(src_prof, proof_bytes, "RGB"),
     result |-> prof_to_prof(image, src_prof, proof_bytes, "RGB")]

\* The soft-proofing hop: source to proofing profile.
proof_hop(image, src_prof, proof_bytes) ==
    [call |-> Conversion(src_prof, proof_bytes, "CMYK"),
     result |-> prof_to_prof(image, src_prof, proof_bytes, "CMYK")]

load_image(file, proof_prof) ==
    LET dst_prof == srgb_profile IN
    IF OpenError(file) # "none" THEN load_except(OpenError(file), << >>)
    ELSE
    LET opened == [kind |-> "pil", mode |-> file.mode, size |-> file.size]
        tagged == file.icc # "none"
        src_prof == IF tagged THEN file.icc ELSE srgb_profile
        image == IF tagged THEN opened ELSE convert(opened, "RGB")
    IN
    IF proof_prof = "None" THEN
        IF SameProfile(src_prof, dst_prof) THEN load_return(convert(image, "RGB"), << >>)
        ELSE LET c == prof_to_prof(image, src_prof, dst_prof, "RGB")
                 log == <<Conversion(src_prof, dst_prof, "RGB")>>
             IN IF c.raised # "none" THEN load_except(c.raised, log)
                ELSE load_return(c.image, log)
    ELSE
        LET read == read_bytes(proof_prof) IN
        IF read.raised # "none" THEN load_except(read.raised, << >>)
        ELSE
        LET hop1 == proof_hop(image, src_prof, read.bytes)
            log1 == <<hop1.call>>
        IN
        IF hop1.result.raised # "none" THEN load_except(hop1.result.raised, log1)
        ELSE
        LET c2 == prof_to_prof(hop1.result.image, read.bytes, dst_prof, "RGB")
            log2 == Append(log1, Conversion(read.bytes, dst_prof, "RGB"))
        IN IF c2.raised # "none" THEN load_except(c2.raised, log2)
           ELSE load_return(c2.image, log2)

-----------------------------------------------------------------------------
(* load_image on its own: every file and every proofing argument.          *)

Idle ==
    /\ item = 0 /\ listing = << >> /\ proc = "running" /\ raised = "none"
    /\ stderr = << >> /\ stdout = << >>
    /\ content_img = NoImage /\ style_imgs = << >> /\ devices = << >> /\ end_scale = 0
    /\ output_image = NoImage /\ trace = << >> /\ cuda_available = FALSE

InitLoad ==
    /\ Idle
    /\ pc = "load_image"
    /\ args \in [file : Files, proof_prof : ProofPaths]
    /\ ret = << >>

CallLoadImage ==
    /\ pc = "load_image"
    /\ LET r == load_image(args.file, args.proof_prof) IN
        /\ ret' = r
        /\ stderr' = stderr \o r.stderr
        /\ proc' = CASE r.outcome = "exit" -> "exit1"
                     [] r.outcome = "raised" -> "unhandled"
                     [] OTHER -> proc
        /\ raised' = r.raised
    /\ pc' = "after_load_image"
    /\ UNCHANGED <<jobVars, stdout, devices, args>>

NextLoad == CallLoadImage

SpecLoad == InitLoad /\ [][NextLoad]_vars

-----------------------------------------------------------------------------
(* Paths and save_image.  A suffix is the sequence of its characters, so   *)
(* that str.lower() is computed character by character.                    *)

lower_char(c) ==
    CASE c = "J" -> "j" [] c = "P" -> "p" [] c = "G" -> "g" [] c = "E" -> "e"
      [] c = "W" -> "w" [] c = "B" -> "b" [] c = "T" -> "t" [] c = "I" -> "i"
      [] c = "F" -> "f" [] c = "N" -> "n" [] c = "M" -> "m"
      [] OTHER -> c

lower(s) == [i \in 1..Len(s) |-> lower_char(s[i])]

Suffixes ==
    {<<".", "j", "p", "g">>, <<".", "J", "P", "G">>, <<".", "j", "p", "e", "g">>,
     <<".", "J", "p", "e", "g">>, <<".", "w", "e", "b", "p">>, <<".", "W", "E", "B", "P">>,
     <<".", "p", "n", "g">>, <<".", "b", "m", "p">>, <<".", "t", "i", "f">>,
     <<".", "T", "I", "F">>, <<".", "t", "i", "f", "f">>, <<".", "T", "i", "f", "f">>,
     << >>}

JpegSuffixes == {<<".", "j", "p", "g">>, <<".", "j", "p", "e", "g">>}

WebpSuffix == <<".", "w", "e", "b", "p">>

TiffSuffixes == {<<".", "t", "i", "f">>, <<".", "t", "i", "f", "f">>}

\* isinstance(image, Image.Image), isinstance(image, np.ndarray)
ImageKinds == {"pil", "ndarray", "tensor"}

\* What the encoder does when called: writes, or raises.
WriterOutcomes == {"ok", "OSError", "ValueError"}

NoWrite == << >>

save_return(writes) ==
    [outcome |-> "returned", status |-> 0, raised |-> "none", error |-> "none",
     stderr |-> << >>, writes |-> writes]

\* An except clause of a saver: caught, printed and sys.exit(1), or left to
\* propagate.
save_except(classes, kind, writes) ==
    IF Catches(classes, kind)
    THEN [outcome |-> "exit", status |-> 1, raised |-> "SystemExit", error |-> kind,
          stderr |-> <<kind>>, writes |-> writes]
    ELSE [outcome |-> "raised", status |-> 0, raised |-> kind, error |-> kind,
          stderr |-> << >>, writes |-> writes]

\* kwargs of image.save in save_pil; 0 stands for a keyword not passed.
pil_kwargs(suffix) ==
    IF lower(suffix) \in JpegSuffixes
    THEN [icc_profile |-> srgb_profile, quality |-> 95, subsampling |-> "4:4:4"]
    ELSE IF lower(suffix) = WebpSuffix
    THEN [icc_profile |-> srgb_profile, quality |-> 95, subsampling |-> "default"]
    ELSE [icc_profile |-> srgb_profile, quality |-> 0, subsampling |-> "default"]

save_pil(suffix, image, writer) ==
    LET call == [writer |-> "Image.save", suffix |-> suffix, image |-> image,
                 kwargs |-> pil_kwargs(suffix), done |-> writer = "ok"]
    IN IF writer = "ok" THEN save_return(<<call>>)
       ELSE save_except({"OSError", "ValueError"}, writer, <<call>>)

save_tiff(suffix, image, writer) ==
    LET call == [writer |-> "TiffWriter.save", suffix |-> suffix, image |-> image,
                 kwargs |-> [icc_profile |-> srgb_profile, photometric |-> "rgb",
                             resolution |-> <<72, 72>>],
                 done |-> writer = "ok"]
    IN IF writer = "ok" THEN save_return(<<call>>)
       ELSE save_except({"OSError"}, writer, <<call>>)

\* The suffix compared without lower(): what C7 must detect.
IsTiffArrayCaseSensitive(suffix, image) ==
    image.kind = "ndarray" /\ suffix \in TiffSuffixes

\* The test of the elif branch of save_image.
IsTiffArray(suffix, image) ==
    image.kind = "ndarray" /\ lower(suffix) \in TiffSuffixes

save_image(suffix, image, writer) ==
    IF image.kind = "pil" THEN save_pil(suffix, image, writer)
    ELSE IF IsTiffArray(suffix, image) THEN save_tiff(suffix, image, writer)
    ELSE [outcome |-> "raised", status |-> 0, raised |-> "ValueError",
          error |-> "ValueError", stderr |-> << >>, writes |-> NoWrite]

-----------------------------------------------------------------------------
(* save_image on its own: every representation, suffix and encoder outcome.*)

InitSave ==
    /\ Idle
    /\ pc = "save_image"
    /\ args \in [suffix : Suffixes,
                 image : [kind : ImageKinds, mode : {"RGB"}, size : {<<512, 512>>}],
                 writer : WriterOutcomes]
    /\ ret = << >>

CallSaveImage ==
    /\ pc = "save_image"
    /\ LET r == save_image(args.suffix, args.image, args.writer) IN
        /\ ret' = r
        /\ stderr' = stderr \o r.stderr
        /\ proc' = CASE r.outcome = "exit" -> "exit1"
                     [] r.outcome = "raised" -> "unhandled"
                     [] OTHER -> proc
        /\ raised' = r.raised
    /\ stdout' = Append(stdout, "Writing image")
    /\ pc' = "after_save_image"
    /\ UNCHANGED <<jobVars, devices, args>>

NextSave == CallSaveImage

SpecSave == InitSave /\ [][NextSave]_vars

-----------------------------------------------------------------------------
(* Devices and their validation in stylize().                              *)

\* torch.device('cpu'), torch.device('cuda:N')
cpu == [type |-> "cpu", index |-> -1]

cuda(n) == [type |-> "cuda", index |-> n]

\* set(device.type for device in devices)
device_types(devs) == {devs[i].type : i \in 1..Len(devs)}

\* not (len(set(device.type for device in devices)) != 1)
SameType(devs) == Cardinality(device_types(devs)) = 1

\* An upper limit off by one: what C3 must detect.
CountUpToThree(devs) == 1 <= Len(devs) /\ Len(devs) <= 3

\* 1 <= len(devices) <= 2
CountOk(devs) == 1 <= Len(devs) /\ Len(devs) <= 2

\* The two checks in the order stylize() makes them.
check_devices(devs) ==
    IF ~SameType(devs) THEN "Devices must all be the same type."
    ELSE IF ~CountOk(devs) THEN "Only 1 or 2 devices are supported."
    ELSE "ok"

\* One call made for a batch item, and how it ended.
Event(ev, outcome, error, image) ==
    [ev |-> ev, outcome |-> outcome, error |-> error, image |-> image]

Logged(e) ==
    IF item \in DOMAIN trace THEN [trace EXCEPT ![item] = Append(@, e)] ELSE trace

\* devices = [torch.device('cuda:0' if torch.cuda.is_available() else 'cpu')]
SelectDevices ==
    /\ pc = "select_devices" /\ proc = "running"
    /\ devices' = <<IF cuda_available THEN cuda(0) ELSE cpu>>
    /\ pc' = "validate"
    /\ UNCHANGED <<jobVars, proc, raised, stderr, stdout, args, ret>>

ValidateDevices ==
    /\ pc = "validate" /\ proc = "running"
    /\ LET verdict == check_devices(devices) IN
        IF verdict = "ok"
        THEN /\ stdout' = stdout \o <<"Using devices",
                              IF devices[1].type = "cpu" THEN "CPU threads" ELSE "GPU type, RAM">>
             /\ trace' = Logged(Event("devices", "ok", "none", NoImage))
             /\ pc' = "prepare"
             /\ UNCHANGED <<proc, raised>>
        ELSE /\ stdout' = Append(stdout, verdict)
             /\ trace' = Logged(Event("devices", "exit", verdict, NoImage))
             /\ proc' = "exit1"
             /\ raised' = "SystemExit"
             /\ UNCHANGED pc
    /\ UNCHANGED <<item, listing, content_img, style_imgs, end_scale, output_image,
                   stderr, devices, cuda_available, args, ret>>

-----------------------------------------------------------------------------
(* The device validation on its own: every list of up to MaxDevices        *)
(* devices.                                                                *)

MaxDevices == 3

DeviceSet == {cpu, cuda(0), cuda(1), cuda(2)}

DeviceLists == UNION {[1..n -> DeviceSet] : n \in 0..MaxDevices}

InitDevices ==
    /\ item = 0 /\ listing = << >> /\ proc = "running" /\ raised = "none"
    /\ stderr = << >> /\ stdout = << >>
    /\ content_img = NoImage /\ style_imgs = << >> /\ end_scale = 0
    /\ output_image = NoImage /\ trace = << >> /\ cuda_available = FALSE
    /\ pc = "validate"
    /\ devices \in DeviceLists
    /\ args = << >> /\ ret = << >>

NextDevices == ValidateDevices

SpecDevices == InitDevices /\ [][NextDevices]_vars

-----------------------------------------------------------------------------
(* stylize(content_path, styles_path, save_dir) and the loop of __main__.  *)

NItems == 2

\* Suffixes of the names os.listdir returns; the destination of an item is
\* os.path.join(save_dir, name) and so carries the same suffix.
BatchSuffixes == {<<".", "j", "p", "g">>, <<".", "P", "N", "G">>}

Max(a, b) == IF a >= b THEN a ELSE b

\* A process that goes on after a fatal error: what C9 must detect.
EndedNever(outcome) == "running"

\* The process ends: sys.exit(1) in a handler, or an exception nobody catches.
Ended(outcome) ==
    CASE outcome = "exit" -> "exit1"
      [] outcome = "raised" -> "unhandled"
      [] OTHER -> "running"

Init ==
    /\ pc = "load_content"
    /\ item = 1
    /\ listing \in [1..NItems -> BatchSuffixes]
    /\ proc = "running" /\ raised = "none"
    /\ stderr = << >> /\ stdout = << >>
    /\ content_img = NoImage /\ style_imgs = << >> /\ devices = << >> /\ end_scale = 0
    /\ output_image = NoImage
    /\ trace = [i \in 1..NItems |-> << >>]
    /\ cuda_available \in BOOLEAN
    /\ args = << >> /\ ret = << >>

\* content_img = load_image(content_path)
LoadContent ==
    /\ pc = "load_content" /\ proc = "running"
    /\ \E file \in Files :
        LET r == load_image(file, "None") IN
        /\ trace' = Logged(Event("load_content", r.outcome, r.error, NoImage))
        /\ stderr' = stderr \o r.stderr
        /\ proc' = Ended(r.outcome)
        /\ raised' = r.raised
        /\ content_img' = r.image
        /\ pc' = IF r.outcome = "returned" THEN "load_style" ELSE pc
    /\ UNCHANGED <<cuda_available, item, listing, style_imgs, devices, end_scale, output_image,
                   stdout, args, ret>>

\* style_imgs = [load_image(styles_path)]
LoadStyle ==
    /\ pc = "load_style" /\ proc = "running"
    /\ \E file \in Files :
        LET r == load_image(file, "None") IN
        /\ trace' = Logged(Event("load_style", r.outcome, r.error, NoImage))
        /\ stderr' = stderr \o r.stderr
        /\ proc' = Ended(r.outcome)
        /\ raised' = r.raised
        /\ style_imgs' = IF r.outcome = "returned" THEN <<r.image>> ELSE style_imgs
        /\ pc' = IF r.outcome = "returned" THEN "select_devices" ELSE pc
    /\ UNCHANGED <<cuda_available, item, listing, content_img, devices, end_scale, output_image,
                   stdout, args, ret>>

\* No except clause around st.stylize: what C10 must detect.
StylizeCatchesNothing == {}

\* The except clause around st.stylize.
StylizeCatches == {"KeyboardInterrupt"}

\* end_scale, the tensors moved to the devices, the seed, and the model.
PrepareModel ==
    /\ pc = "prepare" /\ proc = "running"
    /\ end_scale' = Max(content_img.size[1], content_img.size[2])
    /\ stdout' = Append(stdout, "Loading model...")
    /\ pc' = "stylize"
    /\ UNCHANGED <<cuda_available, item, listing, content_img, style_imgs, devices, output_image,
                   trace, proc, raised, stderr, args, ret>>

\* st.stylize(content_img, style_imgs, end_scale=end_scale) running to its end.
StylizeReturns ==
    /\ pc = "stylize" /\ proc = "running"
    /\ trace' = Logged(Event("stylize", "returned", "none", NoImage))
    /\ pc' = "get_image"
    /\ UNCHANGED <<cuda_available, item, listing, content_img, style_imgs, devices, end_scale,
                   output_image, proc, raised, stderr, stdout, args, ret>>

\* The same call, with KeyboardInterrupt raised inside it.
StylizeInterrupted ==
    /\ pc = "stylize" /\ proc = "running"
    /\ IF Catches(StylizeCatches, "KeyboardInterrupt")
       THEN /\ trace' = Logged(Event("stylize", "cancelled", "KeyboardInterrupt", NoImage))
            /\ pc' = "get_image"
            /\ UNCHANGED <<proc, raised>>
       ELSE /\ trace' = Logged(Event("stylize", "raised", "KeyboardInterrupt", NoImage))
            /\ proc' = "unhandled"
            /\ raised' = "KeyboardInterrupt"
            /\ UNCHANGED pc
    /\ UNCHANGED <<cuda_available, item, listing, content_img, style_imgs, devices, end_scale,
                   output_image, stderr, stdout, args, ret>>

\* StyleTransfer.get_image(image_type): the result so far in the asked
\* representation, or None when there is none.
get_image(image_type, available, content) ==
    IF available THEN [kind |-> image_type, mode |-> "RGB", size |-> content.size]
    ELSE NoImage

\* The test of the result dropped: what C1 must detect.
ShouldSaveAlways(image) == TRUE

\* if output_image is not None
ShouldSave(image) == image # NoImage

\* output_image = st.get_image(image_type), and the test that follows.
GetImage ==
    /\ pc = "get_image" /\ proc = "running"
    /\ \E available \in BOOLEAN :
        LET out == get_image("pil", available, content_img) IN
        /\ output_image' = out
        /\ trace' = Logged(Event("get_image", IF out = NoImage THEN "None" ELSE "image",
                                 "none", out))
        /\ pc' = IF ShouldSave(out) THEN "save" ELSE "job_done"
    /\ UNCHANGED <<cuda_available, item, listing, content_img, style_imgs, devices, end_scale,
                   proc, raised, stderr, stdout, args, ret>>

\* save_image(save_dir, output_image)
SaveOutput ==
    /\ pc = "save" /\ proc = "running"
    /\ \E writer \in WriterOutcomes :
        LET r == save_image(listing[item], output_image, writer) IN
        /\ trace' = Logged(Event("save_image", r.outcome, r.error, output_image))
        /\ stderr' = stderr \o r.stderr
        /\ proc' = Ended(r.outcome)
        /\ raised' = r.raised
        /\ pc' = IF r.outcome = "returned" THEN "job_done" ELSE pc
    /\ stdout' = Append(stdout, "Writing image")
    /\ UNCHANGED <<cuda_available, item, listing, content_img, style_imgs, devices, end_scale,
                   output_image, args, ret>>

\* for i in os.listdir(content_path): the next item, or the end of the script.
NextJob ==
    /\ pc = "job_done" /\ proc = "running"
    /\ IF item < Len(listing)
       THEN /\ item' = item + 1
            /\ pc' = "load_content"
            /\ UNCHANGED proc
       ELSE /\ pc' = "end"
            /\ proc' = "exit0"
            /\ UNCHANGED item
    /\ content_img' = NoImage /\ style_imgs' = << >> /\ devices' = << >>
    /\ end_scale' = 0 /\ output_image' = NoImage
    /\ UNCHANGED <<cuda_available, listing, raised, stderr, stdout, trace, args, ret>>

\* Positions outside the try block around st.stylize.
OutsideStylize == {"load_content", "load_style", "select_devices", "validate",
                   "prepare", "get_image", "save", "job_done"}

\* KeyboardInterrupt raised anywhere but inside st.stylize: no handler.
InterruptOutside ==
    /\ pc \in OutsideStylize /\ proc = "running"
    /\ trace' = Logged(Event("interrupt", "raised", "KeyboardInterrupt", NoImage))
    /\ proc' = "unhandled"
    /\ raised' = "KeyboardInterrupt"
    /\ UNCHANGED <<cuda_available, pc, item, listing, content_img, style_imgs, devices, end_scale,
                   output_image, stderr, stdout, args, ret>>

Next ==
    \/ LoadContent
    \/ LoadStyle
    \/ SelectDevices
    \/ ValidateDevices
    \/ PrepareModel
    \/ StylizeReturns
    \/ StylizeInterrupted
    \/ GetImage
    \/ SaveOutput
    \/ NextJob
    \/ InterruptOutside

Spec == Init /\ [][Next]_vars

-----------------------------------------------------------------------------
(* Python floats are IEEE 754 binary64.  A positive float is m * 2^e with  *)
(* 2^52 <= m < 2^53; m is held in limbs of 14 bits, least significant      *)
(* first, so that no intermediate value leaves the machine integers of the *)
(* checker.  Every operation rounds to nearest, ties to even.              *)

Base == 2^14

Limbs == 1..6

BigZero == [i \in Limbs |-> 0]

\* 0 <= n < 2^31
BigOf(n) ==
    [i \in Limbs |-> CASE i = 1 -> n % Base
                       [] i = 2 -> (n \div Base) % Base
                       [] i = 3 -> n \div (Base * Base)
                       [] OTHER -> 0]

\* x < 2^31
BigToInt(x) == x[1] + x[2] * Base + x[3] * Base * Base

Limb(x, i) == IF i \in Limbs THEN x[i] ELSE 0

RECURSIVE MulAddCarry(_, _, _, _)
MulAddCarry(x, m, carry, i) ==
    IF i > 6 THEN << >>
    ELSE LET v == x[i] * m + carry
         IN <<v % Base>> \o MulAddCarry(x, m, v \div Base, i + 1)

\* x * m + a, for m <= 2^16 and a < 2^14
BigMulAdd(x, m, a) == MulAddCarry(x, m, a, 1)

RECURSIVE CmpFrom(_, _, _)
CmpFrom(x, y, i) ==
    IF i = 0 THEN 0
    ELSE IF x[i] > y[i] THEN 1
    ELSE IF x[i] < y[i] THEN -1
    ELSE CmpFrom(x, y, i - 1)

BigCmp(x, y) == CmpFrom(x, y, 6)

RECURSIVE SubBorrow(_, _, _, _)
SubBorrow(x, y, borrow, i) ==
    IF i > 6 THEN << >>
    ELSE LET v == x[i] - y[i] - borrow
         IN IF v < 0 THEN <<v + Base>> \o SubBorrow(x, y, 1, i + 1)
            ELSE <<v>> \o SubBorrow(x, y, 0, i + 1)

\* x - y, for x >= y
BigSub(x, y) == SubBorrow(x, y, 0, 1)

\* floor(x / 2^n)
BigShr(x, n) ==
    LET q == n \div 14
        r == n % 14
    IN [i \in Limbs |-> (Limb(x, i + q) \div 2^r) + (Limb(x, i + q + 1) % 2^r) * 2^(14 - r)]

\* x * 2^n, while it fits
BigShl(x, n) ==
    LET q == n \div 14
        r == n % 14
    IN [i \in Limbs |-> ((Limb(x, i - q) * 2^r) % Base) + (Limb(x, i - q - 1) \div 2^(14 - r))]

RECURSIVE IntBitLen(_)
IntBitLen(n) == IF n = 0 THEN 0 ELSE 1 + IntBitLen(n \div 2)

RECURSIVE TopLimb(_, _)
TopLimb(x, i) == IF i = 0 THEN 0 ELSE IF x[i] # 0 THEN i ELSE TopLimb(x, i - 1)

BigBitLen(x) ==
    LET t == TopLimb(x, 6) IN IF t = 0 THEN 0 ELSE 14 * (t - 1) + IntBitLen(x[t])

\* x / 2^d rounded to nearest, ties to even; d >= 1
RoundHalfEven(x, d) ==
    LET q == BigShr(x, d)
        low == BigSub(x, BigShl(q, d))
        c == BigCmp(low, BigShl(BigOf(1), d - 1))
    IN IF c > 0 \/ (c = 0 /\ q[1] % 2 = 1) THEN BigMulAdd(q, 1, 1) ELSE q

\* The float nearest to n * 2^e, for n > 0.
Float(n, e) ==
    LET len == BigBitLen(n) IN
    IF len <= 53 THEN [m |-> BigShl(n, 53 - len), e |-> e - (53 - len)]
    ELSE LET d == len - 53
             r == RoundHalfEven(n, d)
         IN IF BigBitLen(r) = 54 THEN [m |-> BigShr(r, 1), e |-> e + d + 1]
            ELSE [m |-> r, e |-> e + d]

RECURSIVE DivFrom(_, _, _, _)
DivFrom(x, b, i, rem) ==
    IF i = 0 THEN [q |-> << >>, rem |-> rem]
    ELSE LET cur == rem * Base + x[i]
             rest == DivFrom(x, b, i - 1, cur % b)
         IN [q |-> Append(rest.q, cur \div b), rem |-> rest.rem]

\* a / b for ints 0 < a, b < 2^15: the quotient to 55 or 56 bits and a
\* sticky bit, then rounded.
float_div(a, b) ==
    LET s == 55 + IntBitLen(b) - IntBitLen(a)
        d == DivFrom(BigShl(BigOf(a), s), b, 6, 0)
    IN Float(BigMulAdd(d.q, 2, IF d.rem = 0 THEN 0 ELSE 1), 0 - s - 1)

\* Bits 2i+1 and 2i of x.
PairOf(x, i) == (x[((2 * i) \div 14) + 1] \div 4^(i % 7)) % 4

\* Digit-by-digit square root of x * 2^56: pairs k = 54 .. 0 of the radicand.
RECURSIVE SqrtFrom(_, _, _, _)
SqrtFrom(x, k, root, rem) ==
    IF k < 0 THEN [root |-> root, rem |-> rem]
    ELSE LET r4 == BigMulAdd(rem, 4, IF k >= 28 THEN PairOf(x, k - 28) ELSE 0)
             trial == BigMulAdd(root, 4, 1)
         IN IF BigCmp(r4, trial) >= 0
            THEN SqrtFrom(x, k - 1, BigMulAdd(root, 2, 1), BigSub(r4, trial))
            ELSE SqrtFrom(x, k - 1, BigMulAdd(root, 2, 0), r4)

\* pow(x, 1/2): the correctly rounded square root.
float_pow_half(x) ==
    LET odd == x.e % 2 = 1
        m2 == IF odd THEN BigShl(x.m, 1) ELSE x.m
        e2 == IF odd THEN x.e - 1 ELSE x.e
        r == SqrtFrom(m2, 54, BigZero, BigZero)
    IN Float(BigMulAdd(r.root, 2, IF r.rem = BigZero THEN 0 ELSE 1), (e2 \div 2) - 29)

\* x * n for an int 0 < n < 2^16
float_mul(x, n) == Float(BigMulAdd(x.m, n, 0), x.e)

\* int(x), for 1 <= x < 2^31
float_int(x) == BigToInt(BigShr(x.m, 0 - x.e))

\* The ratio taken as w / h whatever the orientation: what C8 must detect.
aspect_w_over_h(w, h) == float_div(w, h)

\* w / h if w > h else h / w
aspect(w, h) == IF w > h THEN float_div(w, h) ELSE float_div(h, w)

get_safe_scale(w, h, dim) == float_int(float_mul(float_pow_half(aspect(w, h)), dim))

-----------------------------------------------------------------------------
(* get_safe_scale on its own.                                              *)

Sides == {1, 2, 25, 49, 500, 1000}

Dims == {1, 45, 512}

InitScale ==
    /\ Idle
    /\ pc = "get_safe_scale"
    /\ args \in [w : Sides, h : Sides, dim : Dims]
    /\ ret = 0

CallGetSafeScale ==
    /\ pc = "get_safe_scale"
    /\ ret' = get_safe_scale(args.w, args.h, args.dim)
    /\ pc' = "after_get_safe_scale"
    /\ UNCHANGED <<jobVars, proc, raised, stderr, stdout, devices, args>>

NextScale == CallGetSafeScale

SpecScale == InitScale /\ [][NextScale]_vars

-----------------------------------------------------------------------------
(* Properties.  Helpers over the history of one batch item.                *)

Items == DOMAIN trace

Positions(t, ev) == {k \in DOMAIN t : t[k].ev = ev}

Cancelled(t) == \E k \in Positions(t, "stylize") : t[k].outcome = "cancelled"

Interrupted(t) == Positions(t, "interrupt") # {}

\* A call that ended in an error: a failed load, a rejected device list, a
\* failed or refused save.
Failed(e) == e.ev \in {"load_content", "load_style", "devices", "save_image"} /\ e.error # "none"

Fatal(t) == \E k \in DOMAIN t : Failed(t[k])

\* stylize() has returned to the loop for item i.
JobDone(i) == item > i \/ (item = i /\ pc \in {"job_done", "end"})

\* The process ended while item i was running.
DiedAt(i) == item = i /\ proc \in {"exit1", "unhandled"}

\* The calls of a job, as opposed to a signal that ended it.
IsCall(e) == e.ev # "interrupt"

\* The place of a call in a job that nothing goes wrong in.
Rank(ev) ==
    CASE ev = "load_content" -> 1
      [] ev = "load_style" -> 2
      [] ev = "devices" -> 3
      [] ev = "stylize" -> 4
      [] ev = "get_image" -> 5
      [] ev = "save_image" -> 6
      [] OTHER -> 0

\* C1: a KeyboardInterrupt raised inside st.stylize never leaves stylize();
\* the job then calls save_image exactly once, with the image get_image
\* returned, when there is one, and not at all when get_image returned None;
\* the job returns to the loop unless that save itself fails or a second
\* signal arrives outside the try block.
C1_CancelledJobSavesPartialResult ==
    \A i \in Items :
        LET t == trace[i] IN
        Cancelled(t) =>
            /\ \A k \in Positions(t, "stylize") : t[k].outcome # "raised"
            /\ Cardinality(Positions(t, "save_image")) <= 1
            /\ \A g \in Positions(t, "get_image") :
                /\ t[g].outcome = "None" =>
                    /\ Positions(t, "save_image") = {}
                    /\ JobDone(i) \/ Interrupted(t)
                /\ t[g].outcome = "image" =>
                    /\ \A k \in Positions(t, "save_image") : t[k].image = t[g].image
                    /\ JobDone(i) => Cardinality(Positions(t, "save_image")) = 1
                    /\ (\E k \in Positions(t, "save_image") : t[k].outcome = "returned")
                          => JobDone(i) \/ Interrupted(t)
            /\ DiedAt(i) =>
                \/ Interrupted(t)
                \/ t[Len(t)].ev = "save_image" /\ t[Len(t)].outcome # "returned"

\* C1 witness: a cancelled job whose partial result was saved by its one
\* save_image call, and which returned to the loop.
C1_Witness ==
    \E i \in Items :
        /\ Cancelled(trace[i]) /\ JobDone(i)
        /\ Len(trace[i]) = 6
        /\ trace[i][5].outcome = "image"
        /\ trace[i][6].ev = "save_image" /\ trace[i][6].outcome = "returned"
        /\ trace[i][6].image = trace[i][5].image

\* C2: every I/O or colour-profile error raised inside load_image is printed
\* by print_error with its kind and ends the process through sys.exit(1);
\* no image is returned.
C2_LoadErrorsReportedAndExit ==
    (pc = "after_load_image" /\ ret.error # "none") =>
        /\ ret.outcome = "exit" /\ ret.status = 1 /\ proc = "exit1"
        /\ stderr = <<ret.error>>
        /\ ret.image = NoImage

\* C3: the validation rejects (message printed, exit status 1, the stylize
\* call never reached) exactly the lists with no device, with more than two
\* devices, or with devices of different classes; it accepts every list of
\* one or two devices of one class.
C3_DeviceListRejectedExactlyWhenInvalid ==
    LET n == Len(devices)
        oneClass == \A i, j \in 1..n : devices[i].type = devices[j].type
        invalid == n = 0 \/ n > 2 \/ ~oneClass
    IN (item = 0 /\ (pc # "validate" \/ proc # "running")) =>
        /\ invalid <=> proc = "exit1"
        /\ ~invalid <=> (pc = "prepare" /\ proc = "running")
        /\ proc = "exit1" => /\ pc = "validate"
                             /\ Len(stdout) = 1
                             /\ stdout[1] \in {"Devices must all be the same type.",
                                               "Only 1 or 2 devices are supported."}

\* C3 witness: two devices of different classes, rejected.
C3_Witness ==
    /\ item = 0 /\ proc = "exit1" /\ Len(devices) = 2
    /\ devices[1].type # devices[2].type

\* C4: the calls of one job come in the order load content, load style,
\* validate devices, stylize (returned or cancelled), get_image, save_image;
\* stylize is called only after both loads returned an image and the devices
\* passed; save_image is called at most once, only after stylize returned or
\* was cancelled and get_image gave an image; a call that fails is the last
\* of its job and the process has ended there.
C4_JobOrder ==
    \A i \in Items :
        LET t == SelectSeq(trace[i], IsCall) IN
        /\ Len(t) <= 6
        /\ \A k \in DOMAIN trace[i] : trace[i][k].ev = "interrupt" => k = Len(trace[i])
        /\ \A k \in DOMAIN t :
            /\ Rank(t[k].ev) = k
            /\ Failed(t[k]) => k = Len(t) /\ DiedAt(i)
            /\ t[k].ev = "stylize" =>
                /\ t[1].ev = "load_content" /\ t[1].outcome = "returned" /\ t[1].error = "none"
                /\ t[2].ev = "load_style" /\ t[2].outcome = "returned" /\ t[2].error = "none"
                /\ t[3].ev = "devices" /\ t[3].outcome = "ok"
            /\ t[k].ev = "save_image" =>
                /\ t[4].ev = "stylize" /\ t[4].outcome \in {"returned", "cancelled"}
                /\ t[5].ev = "get_image" /\ t[5].outcome = "image"
        /\ (item = i /\ pc \in {"stylize", "get_image", "save"}) =>
            content_img.kind = "pil" /\ Len(style_imgs) = 1 /\ style_imgs[1].kind = "pil"
        /\ Cardinality(Positions(t, "save_image")) <= 1
        /\ Fatal(t) /\ t[Len(t)].ev # "save_image" =>
            Positions(t, "stylize") = {} /\ Positions(t, "save_image") = {}
        /\ JobDone(i) =>
            \/ Len(t) = 5 /\ t[5].outcome = "None"
            \/ Len(t) = 6 /\ t[6].outcome = "returned"

\* C4 witness: a job that went through all six calls and returned.
C4_Witness ==
    \E i \in Items :
        /\ JobDone(i) /\ Len(trace[i]) = 6
        /\ trace[i][4].outcome = "returned" /\ trace[i][6].outcome = "returned"

\* C5: without a proofing profile, prof_to_prof is called once (source to
\* canonical, output mode RGB) when the embedded profile differs from the
\* canonical bytes, and not at all when it equals them or is absent; an
\* image that is returned has mode RGB.
C5_ConversionsWithoutProof ==
    (pc = "after_load_image" /\ args.proof_prof = "None" /\ args.file.status = "ok") =>
        /\ args.file.icc \notin {"none", srgb_profile} =>
            ret.conversions = <<Conversion(args.file.icc, srgb_profile, "RGB")>>
        /\ args.file.icc \in {"none", srgb_profile} =>
            ret.conversions = << >> /\ ret.outcome = "returned"
        /\ ret.outcome = "returned" => ret.image.mode = "RGB"

\* C5 witness: a file with a differing embedded profile, loaded with one
\* conversion.
C5_Witness ==
    /\ pc = "after_load_image" /\ args.proof_prof = "None"
    /\ args.file.icc = "AdobeRGB" /\ ret.outcome = "returned"
    /\ Len(ret.conversions) = 1 /\ ret.image.mode = "RGB"

\* C6: with a proofing profile, the conversions made are, in this order,
\* source to proofing profile with output mode CMYK and proofing profile to
\* canonical with output mode RGB, whether the source profile equals the
\* canonical one, differs from it or is absent: a load that returns has made
\* exactly these two, and one that fails has made a prefix of them.
C6_TwoConversionsWithProof ==
    (pc = "after_load_image" /\ args.proof_prof # "None") =>
        LET src == IF args.file.icc = "none" THEN srgb_profile ELSE args.file.icc
            proof == read_bytes(args.proof_prof).bytes
            both == <<Conversion(src, proof, "CMYK"), Conversion(proof, srgb_profile, "RGB")>>
        IN /\ \E n \in 0..2 : ret.conversions = SubSeq(both, 1, n)
           /\ ret.outcome = "returned" => ret.conversions = both /\ ret.image.mode = "RGB"

\* C6 witness: a file tagged with the canonical profile, proofed and
\* returned after two conversions.
C6_Witness ==
    /\ pc = "after_load_image" /\ args.proof_prof = "fogra39.icc"
    /\ args.file.icc = srgb_profile /\ ret.outcome = "returned"
    /\ Len(ret.conversions) = 2

\* C7: save_image calls an encoder exactly once, passing the canonical
\* profile, for a PIL image with any suffix (quality 95 and 4:4:4 for
\* .jpg/.jpeg, quality 95 for .webp, in any case of letters) and for a numeric
\* array with a .tif/.tiff suffix in any case of letters; for every other
\* pair it raises ValueError and calls no encoder.
C7_SaveDispatch ==
    pc = "after_save_image" =>
        LET suffix == args.suffix
            kind == args.image.kind
            tiff == suffix \in {<<".", "t", "i", "f">>, <<".", "T", "I", "F">>,
                                <<".", "t", "i", "f", "f">>, <<".", "T", "i", "f", "f">>}
            jpeg == suffix \in {<<".", "j", "p", "g">>, <<".", "J", "P", "G">>,
                                <<".", "j", "p", "e", "g">>, <<".", "J", "p", "e", "g">>}
            webp == suffix \in {<<".", "w", "e", "b", "p">>, <<".", "W", "E", "B", "P">>}
            supported == kind = "pil" \/ (kind = "ndarray" /\ tiff)
        IN /\ supported =>
                /\ Len(ret.writes) = 1
                /\ ret.writes[1].kwargs.icc_profile = srgb_profile
                /\ ret.writes[1].image = args.image
                /\ ret.writes[1].writer = IF kind = "pil" THEN "Image.save" ELSE "TiffWriter.save"
                /\ kind = "pil" /\ jpeg =>
                    ret.writes[1].kwargs.quality = 95 /\ ret.writes[1].kwargs.subsampling = "4:4:4"
                /\ kind = "pil" /\ webp => ret.writes[1].kwargs.quality = 95
           /\ ~supported =>
                /\ ret.writes = << >>
                /\ ret.outcome = "raised" /\ ret.raised = "ValueError"
                /\ proc = "unhandled"

\* C7 witness: a numeric array saved under an upper-case .TIF suffix.
C7_Witness ==
    /\ pc = "after_save_image" /\ args.image.kind = "ndarray"
    /\ args.suffix = <<".", "T", "I", "F">>
    /\ ret.outcome = "returned" /\ Len(ret.writes) = 1

RECURSIVE IsqrtBetween(_, _, _)
IsqrtBetween(v, lo, hi) ==
    IF lo = hi THEN lo
    ELSE LET mid == (lo + hi + 1) \div 2
         IN IF mid * mid <= v THEN IsqrtBetween(v, mid, hi) ELSE IsqrtBetween(v, lo, mid - 1)

\* floor(sqrt(max(w,h)/min(w,h)) * dim) over the reals, for max * dim^2 < 2^31
ExactScale(w, h, dim) ==
    IsqrtBetween((Max(w, h) * dim * dim) \div (IF w <= h THEN w ELSE h), 0, 46340)

\* C8 as stated: get_safe_scale(w, h, dim) is floor(sqrt(max/min) * dim).
C8_EqualsExactFloor ==
    pc = "after_get_safe_scale" => ret = ExactScale(args.w, args.h, args.dim)

\* C8 as amended: get_safe_scale(w, h, dim) is within 1 of
\* floor(sqrt(max/min) * dim), is the same with w and h swapped, grows
\* strictly with dim, is dim when w = h, and is 724 for (1000, 500, 512).
C8_SafeScaleProperties ==
    pc = "after_get_safe_scale" =>
        LET exact == ExactScale(args.w, args.h, args.dim) IN
        /\ exact - 1 <= ret /\ ret <= exact + 1
        /\ ret = get_safe_scale(args.h, args.w, args.dim)
        /\ ret < get_safe_scale(args.w, args.h, args.dim + 1)
        /\ args.w = args.h => ret = args.dim
        /\ (args.w = 1000 /\ args.h = 500 /\ args.dim = 512) => ret = 724

\* C8 witness: the example of the specification.
C8_Witness ==
    /\ pc = "after_get_safe_scale"
    /\ args = [w |-> 1000, h |-> 500, dim |-> 512] /\ ret = 724

\* C9: once an item has ended in a fatal error (a failed load, a rejected
\* device list, a failed or refused save), the process has ended at that
\* item: no later item has been loaded, stylized or saved, the failing call
\* is the last one made, and no call of the item was made twice.
C9_FatalErrorEndsBatch ==
    \A i \in Items :
        LET t == trace[i] IN
        Fatal(t) =>
            /\ DiedAt(i)
            /\ Failed(t[Len(t)])
            /\ \A j \in Items : j > i => trace[j] = << >>
            /\ \A k, l \in DOMAIN t : t[k].ev = t[l].ev => k = l

\* C9 witness: the save of the first item failed and the second item was
\* never started.
C9_Witness ==
    /\ Len(trace) >= 2 /\ Len(trace[1]) = 6
    /\ trace[1][6].ev = "save_image" /\ trace[1][6].outcome = "exit"
    /\ trace[2] = << >> /\ proc = "exit1"

\* C10: the process never ends at the st.stylize call: a KeyboardInterrupt
\* there is caught, the job goes on to get_image and save-or-skip, and when
\* stylize() has returned the loop starts the next item; a KeyboardInterrupt
\* anywhere else ends the process unhandled, nothing is called after it, and
\* when it came before the save of the item had ended the item was not saved.
C10_State ==
    \A i \in Items :
        LET t == trace[i] IN
        /\ \A k \in Positions(t, "stylize") : t[k].outcome \in {"returned", "cancelled"}
        /\ (DiedAt(i) /\ t # << >>) => t[Len(t)].ev # "stylize"
        /\ Interrupted(t) =>
            /\ t[Len(t)].ev = "interrupt" /\ Cardinality(Positions(t, "interrupt")) = 1
            /\ DiedAt(i) /\ proc = "unhandled" /\ raised = "KeyboardInterrupt"
            /\ \A j \in Items : j > i => trace[j] = << >>
            /\ pc # "job_done" =>
                ~ \E k \in Positions(t, "save_image") : t[k].outcome = "returned"

C10_Step ==
    /\ (pc = "stylize" /\ pc' # pc) => (pc' = "get_image" /\ proc' = "running")
    /\ (pc = "job_done" /\ item \in Items /\ Cancelled(trace[item])
          /\ item < Len(listing) /\ proc' = "running" /\ pc' # pc)
          => (item' = item + 1 /\ pc' = "load_content")
    /\ proc # "running" => UNCHANGED vars

C10_InterruptEndsOnlyTheStylizeCall == [](C10_State) /\ [][C10_Step]_vars

\* C10 witness: the first item was cancelled, and the second was then
\* loaded, stylized and saved.
C10_Witness ==
    /\ Len(trace) >= 2 /\ Cancelled(trace[1])
    /\ Len(trace[2]) = 6 /\ trace[2][6].outcome = "returned"

====
